---- MODULE Spec2Model ----
(***************************************************************************)
(* A model of pyregmap: the backend chain of regmap/backends.py            *)
(* (IntBackend, BackendRecorder, GranularBackend, CachingBackend and its   *)
(* CachedAccess scopes, WindowBackend, chains of these decorators) and the *)
(* register layer of regmap/types.py (Register.__init__, RegisterInstance  *)
(* with its __init__, _set/_get and __enter__/__exit__, RegRO and RegWO).  *)
(*                                                                         *)
(* The backend fixture is the one of ContextManagerTest.setUp, with one    *)
(* more recorder between the cache and the granular layer:                 *)
(*    dev  = IntBackend()                                                  *)
(*    rec  = BackendRecorder(dev)        -- log  : what the device sees    *)
(*    gb   = GranularBackend(rec)                                          *)
(*    irec = BackendRecorder(gb)         -- ilog : what the cache issues   *)
(*    cb   = CachingBackend(irec)                                          *)
(***************************************************************************)
EXTENDS Integers, Sequences, FiniteSets, TLC

VARIABLES
    value,        \* IntBackend.value of dev
    granularity,  \* gb.granularity
    cache,        \* cb.cache[1:], the CachedAccess objects (cb.cache[0] is cb.backend)
    log,          \* rec.log
    ilog,         \* irec.log
    last,         \* the last call made: operation, arguments, exception, return value
    reg,          \* the outcome of the last Register(...) construction
    region,       \* the last compute_region call: arguments and result
    stack,        \* a chain of backend decorators over dev, outermost first
    entered,      \* the register instances whose 'with' block the client is in
    inst,         \* a register map instantiated over dev: its leaves' spans
    shared        \* a children list and the definitions constructed from it

vars == <<value, granularity, cache, log, ilog, last, reg, region, stack, entered, inst,
          shared>>

(***************************************************************************)
(* Bounds of the model.                                                    *)
(***************************************************************************)
MemBits == 2      \* bit positions 0..MemBits-1 are addressed by the callers
LeafBits == 3     \* bit positions 0..LeafBits-1 hold register leaves
MaxGran == 2      \* gb.granularity ranges over 1..MaxGran
NestBits == 2     \* the address width where scopes are nested
MaxDepth == 2     \* at most this many CachedAccess objects are stacked
MaxChildren == 2  \* a composite is constructed from at most this many children
MaxChildLen == 2  \* bit_length of a child passed to a constructor
MaxRelPos == 3    \* explicit rel_bitpos of a child
MaxBitLength == 4 \* explicit bit_length of a composite
MaxRegionGran == 4  \* compute_region: granularity
MaxStart == 7       \* compute_region: start
MaxLength == 6      \* compute_region: length
StackBits == 2      \* bit positions 0..StackBits-1 are addressed through a chain
ScopeBits == 1      \* the same where scopes are begun and ended on a chain
MaxLayers == 2      \* a chain has at most this many decorators
MaxOffset == 1      \* offset of a WindowBackend of a chain
MaxOpen == 2        \* scopes stacked in one cache of a chain, and nested 'with' blocks
MaxSets == 2        \* _set calls made on one instantiated register map
MaxMade == 2        \* definitions constructed from one children list

(***************************************************************************)
(* Python's integer operators on non-negative integers.                    *)
(***************************************************************************)
ShiftL(x, n) == x * (2 ^ n)

ShiftR(x, n) == x \div (2 ^ n)

RECURSIVE BitAnd(_, _)
BitAnd(a, b) ==
    IF a = 0 \/ b = 0 THEN 0
    ELSE ((a % 2) * (b % 2)) + 2 * BitAnd(a \div 2, b \div 2)

RECURSIVE BitOr(_, _)
BitOr(a, b) ==
    IF a = 0 THEN b
    ELSE IF b = 0 THEN a
    ELSE (IF (a % 2) + (b % 2) > 0 THEN 1 ELSE 0) + 2 * BitOr(a \div 2, b \div 2)

\* a & ~m
RECURSIVE BitAndNot(_, _)
BitAndNot(a, m) ==
    IF a = 0 THEN 0
    ELSE ((a % 2) * (1 - (m % 2))) + 2 * BitAndNot(a \div 2, m \div 2)

\* a ^ b
RECURSIVE BitXor(_, _)
BitXor(a, b) ==
    IF a = 0 THEN b
    ELSE IF b = 0 THEN a
    ELSE ((a + b) % 2) + 2 * BitXor(a \div 2, b \div 2)

\* (1 << length) - 1
Mask(length) == ShiftL(1, length) - 1

\* bit i of x, read independently of the operators above
Bit(x, i) == (x \div (2 ^ i)) % 2

(***************************************************************************)
(* IntBackend                                                              *)
(***************************************************************************)
IntBackend_get_bits(v, start, length) ==
    BitAnd(ShiftR(v, start), Mask(length))

\* a set_bits that ORs the new bits in without clearing the old ones
IntBackend_set_bits_or(v, start, length, val) ==
    BitOr(v, ShiftL(BitAnd(val, Mask(length)), start))

IntBackend_set_bits(v, start, length, val) ==
    BitOr(BitAndNot(v, ShiftL(Mask(length), start)),
          ShiftL(BitAnd(val, Mask(length)), start))

(***************************************************************************)
(* BackendRecorder: log entries and the two recorders of the fixture.      *)
(* A "world" w is the state below the cache: [value, log, ilog].           *)
(***************************************************************************)
GET == "get"
SET == "set"

Entry(kind, start, length, data) ==
    [kind |-> kind, start |-> start, length |-> length, data |-> data]

\* rec.get_bits: returns [w, ret]
Rec_get_bits(w, start, length) ==
    LET data == IntBackend_get_bits(w.value, start, length)
    IN  [w |-> [w EXCEPT !.log = Append(@, Entry(GET, start, length, data))],
         ret |-> data]

\* rec.set_bits: returns the new world
Rec_set_bits(w, start, length, val) ==
    [w EXCEPT !.log = Append(@, Entry(SET, start, length, val)),
              !.value = IntBackend_set_bits(@, start, length, val)]

(***************************************************************************)
(* GranularBackend                                                         *)
(***************************************************************************)
\* a compute_region that rounds an already aligned end up to the next boundary
compute_region_round_always(g, start, length) ==
    LET real_start == start - (start % g)
        real_end == start + length
        frag == real_end % g
    IN  <<real_start, real_end + (g - frag)>>

\* a compute_region that leaves the start where the caller put it
compute_region_start_kept(g, start, length) ==
    LET real_end == start + length
        frag == real_end % g
    IN  <<start, IF frag # 0 THEN real_end + (g - frag) ELSE real_end>>

compute_region(g, start, length) ==
    LET real_start == start - (start % g)
        real_end == start + length
        frag == real_end % g
    IN  <<real_start, IF frag # 0 THEN real_end + (g - frag) ELSE real_end>>

compute_mask(g, start, length) ==
    LET r == compute_region(g, start, length)
    IN  [rstart |-> r[1], rlen |-> r[2] - r[1],
         delta |-> start - r[1], mask |-> Mask(length)]

\* gb.get_bits: returns [w, ret]
Granular_get_bits(g, w, start, length) ==
    LET m == compute_mask(g, start, length)
        got == Rec_get_bits(w, m.rstart, m.rlen)
    IN  [w |-> got.w, ret |-> BitAnd(ShiftR(got.ret, m.delta), m.mask)]

\* a set_bits that reads the region back before every write
Granular_set_bits_always_read(g, w, start, length, val) ==
    LET m == compute_mask(g, start, length)
        got == Rec_get_bits(w, m.rstart, m.rlen)
        data == BitOr(BitAndNot(got.ret, ShiftL(m.mask, m.delta)),
                      ShiftL(val, m.delta))
    IN  Rec_set_bits(got.w, m.rstart, m.rlen, data)

\* a set_bits that reads the region back only when the span starts off a boundary
Granular_set_bits_read_if_misaligned(g, w, start, length, val) ==
    LET m == compute_mask(g, start, length)
        rmw == m.rstart < start
        got == IF rmw THEN Rec_get_bits(w, m.rstart, m.rlen)
                      ELSE [w |-> w, ret |-> 0]
        data == BitOr(BitAndNot(got.ret, ShiftL(m.mask, m.delta)),
                      ShiftL(val, m.delta))
    IN  Rec_set_bits(got.w, m.rstart, m.rlen, data)

\* gb.set_bits: returns the new world
Granular_set_bits(g, w, start, length, val) ==
    LET m == compute_mask(g, start, length)
        rmw == m.rstart < start \/ m.rlen > length
        got == IF rmw THEN Rec_get_bits(w, m.rstart, m.rlen)
                      ELSE [w |-> w, ret |-> 0]
        data == BitOr(BitAndNot(got.ret, ShiftL(m.mask, m.delta)),
                      ShiftL(val, m.delta))
    IN  Rec_set_bits(got.w, m.rstart, m.rlen, data)

(***************************************************************************)
(* The inner recorder irec = BackendRecorder(gb), which is cb.backend.     *)
(***************************************************************************)
Inner_get_bits(g, w, start, length) ==
    LET got == Granular_get_bits(g, w, start, length)
    IN  [w |-> [got.w EXCEPT !.ilog = Append(@, Entry(GET, start, length, got.ret))],
         ret |-> got.ret]

Inner_set_bits(g, w, start, length, val) ==
    Granular_set_bits(g,
        [w EXCEPT !.ilog = Append(@, Entry(SET, start, length, val))],
        start, length, val)

(***************************************************************************)
(* Access modes (the MODE_ constants of Backend) and the exceptions a call  *)
(* can end with.                                                           *)
(***************************************************************************)
MODE_READ == "read"
MODE_WRITE == "write"
MODE_RMW == "rmw"
MODE_DISCARD == "discard"
Modes == {MODE_READ, MODE_WRITE, MODE_RMW, MODE_DISCARD}

OK == "ok"
ReadOnlyError == "ValueError: read-only cache access tried to set bits"
WriteOnlyError == "ValueError: write-only cache access tried to get bits"
IncompleteWriteError == "ValueError: write-only cached access did not set all bits"
NegativeShiftError == "ValueError: negative shift count"
NotOpenError == "AssertionError: len(self.cache) > 1"
MismatchError == "AssertionError: acc.start == start, acc.length == length, acc.mode == mode"
NestedError == "AssertionError: nested cached 'with' statements not yet supported"

(***************************************************************************)
(* CachingBackend.CachedAccess.  acc.backend and acc.written are the       *)
(* values of the two IntBackends behind WindowBackend(IntBackend(), -start)*)
(* so bit i of them is bit acc.start + i of the caller's address space.    *)
(***************************************************************************)
\* an __init__ that seeds the shadow buffer from the inner backend in every mode
CachedAccess_init_always_seeded(g, w, start, length, mode) ==
    LET got == Inner_get_bits(g, w, start, length)
    IN  [w |-> got.w,
         acc |-> [start |-> start, length |-> length, mode |-> mode,
                  backend |-> IntBackend_set_bits(0, (0 - start) + start, length, got.ret),
                  written |-> 0]]

\* CachedAccess.__init__: returns [w, acc]
CachedAccess_init(g, w, start, length, mode) ==
    LET got == IF mode # MODE_WRITE THEN Inner_get_bits(g, w, start, length)
                                    ELSE [w |-> w, ret |-> 0]
    IN  [w |-> got.w,
         acc |-> [start |-> start, length |-> length, mode |-> mode,
                  backend |-> IF mode # MODE_WRITE
                              THEN IntBackend_set_bits(0, (0 - start) + start, length, got.ret)
                              ELSE 0,
                  written |-> 0]]

\* a set_bits without the check of the scope's mode
CachedAccess_set_bits_any_mode(acc, start, length, val) ==
    IF (0 - acc.start) + start < 0 THEN [acc |-> acc, err |-> NegativeShiftError]
    ELSE [acc |-> [acc EXCEPT
                    !.written = IntBackend_set_bits(@, (0 - acc.start) + start, length, Mask(length)),
                    !.backend = IntBackend_set_bits(@, (0 - acc.start) + start, length, val)],
          err |-> OK]

\* CachedAccess.set_bits: returns [acc, err]
CachedAccess_set_bits(acc, start, length, val) ==
    IF acc.mode = MODE_READ THEN [acc |-> acc, err |-> ReadOnlyError]
    ELSE IF (0 - acc.start) + start < 0 THEN [acc |-> acc, err |-> NegativeShiftError]
    ELSE [acc |-> [acc EXCEPT
                    !.written = IntBackend_set_bits(@, (0 - acc.start) + start, length, Mask(length)),
                    !.backend = IntBackend_set_bits(@, (0 - acc.start) + start, length, val)],
          err |-> OK]

\* CachedAccess.get_bits: returns [ret, err]
CachedAccess_get_bits(acc, start, length) ==
    IF acc.mode = MODE_WRITE THEN [ret |-> 0, err |-> WriteOnlyError]
    ELSE IF (0 - acc.start) + start < 0 THEN [ret |-> 0, err |-> NegativeShiftError]
    ELSE [ret |-> IntBackend_get_bits(acc.backend, (0 - acc.start) + start, length),
          err |-> OK]

(***************************************************************************)
(* CachingBackend.  Each operator returns the outcome of the call:         *)
(* [w, cache, err, ret].                                                   *)
(***************************************************************************)
Outcome(w, c, err, ret) == [w |-> w, cache |-> c, err |-> err, ret |-> ret]

CachingBackend_begin_update(g, w, c, start, length, mode) ==
    LET made == CachedAccess_init(g, w, start, length, mode)
    IN  Outcome(made.w, Append(c, made.acc), OK, 0)

\* an end_update without the early return of MODE_DISCARD
CachingBackend_end_update_no_discard(g, w, c, start, length, mode) ==
    IF Len(c) = 0 THEN Outcome(w, c, NotOpenError, 0)
    ELSE
      LET acc == c[Len(c)]
          rest == SubSeq(c, 1, Len(c) - 1)
          mask == IntBackend_get_bits(acc.written, (0 - acc.start) + start, length)
          full == Mask(length)
          nested == IF Len(rest) = 0 THEN OK ELSE NestedError
      IN  IF acc.start # start \/ acc.length # length \/ acc.mode # mode
               THEN Outcome(w, rest, MismatchError, 0)
          ELSE IF mode = MODE_WRITE /\ mask # full
               THEN Outcome(w, rest, IncompleteWriteError, BitXor(full, mask))
          ELSE IF mask # 0
               THEN Outcome(Inner_set_bits(g, w, start, length,
                                IntBackend_get_bits(acc.backend, (0 - acc.start) + start, length)),
                            rest, nested, 0)
          ELSE Outcome(w, rest, nested, 0)

\* an end_update that commits a write-only scope without the all-bits check
CachingBackend_end_update_unchecked(g, w, c, start, length, mode) ==
    IF Len(c) = 0 THEN Outcome(w, c, NotOpenError, 0)
    ELSE
      LET acc == c[Len(c)]
          rest == SubSeq(c, 1, Len(c) - 1)
          mask == IntBackend_get_bits(acc.written, (0 - acc.start) + start, length)
          nested == IF Len(rest) = 0 THEN OK ELSE NestedError
      IN  IF mode = MODE_DISCARD THEN Outcome(w, rest, OK, 0)
          ELSE IF acc.start # start \/ acc.length # length \/ acc.mode # mode
               THEN Outcome(w, rest, MismatchError, 0)
          ELSE IF mask # 0
               THEN Outcome(Inner_set_bits(g, w, start, length,
                                IntBackend_get_bits(acc.backend, (0 - acc.start) + start, length)),
                            rest, nested, 0)
          ELSE Outcome(w, rest, nested, 0)

\* an end_update that compares the span with the scope's but not the mode
CachingBackend_end_update_no_mode_assert(g, w, c, start, length, mode) ==
    IF Len(c) = 0 THEN Outcome(w, c, NotOpenError, 0)
    ELSE
      LET acc == c[Len(c)]
          rest == SubSeq(c, 1, Len(c) - 1)
          mask == IntBackend_get_bits(acc.written, (0 - acc.start) + start, length)
          full == Mask(length)
          nested == IF Len(rest) = 0 THEN OK ELSE NestedError
      IN  IF mode = MODE_DISCARD THEN Outcome(w, rest, OK, 0)
          ELSE IF acc.start # start \/ acc.length # length
               THEN Outcome(w, rest, MismatchError, 0)
          ELSE IF mode = MODE_WRITE /\ mask # full
               THEN Outcome(w, rest, IncompleteWriteError, BitXor(full, mask))
          ELSE IF mask # 0
               THEN Outcome(Inner_set_bits(g, w, start, length,
                                IntBackend_get_bits(acc.backend, (0 - acc.start) + start, length)),
                            rest, nested, 0)
          ELSE Outcome(w, rest, nested, 0)

\* an end_update that pops the scope only once its checks have passed
CachingBackend_end_update_pop_late(g, w, c, start, length, mode) ==
    IF Len(c) = 0 THEN Outcome(w, c, NotOpenError, 0)
    ELSE
      LET acc == c[Len(c)]
          rest == SubSeq(c, 1, Len(c) - 1)
          mask == IntBackend_get_bits(acc.written, (0 - acc.start) + start, length)
          full == Mask(length)
          nested == IF Len(rest) = 0 THEN OK ELSE NestedError
      IN  IF mode = MODE_DISCARD THEN Outcome(w, rest, OK, 0)
          ELSE IF acc.start # start \/ acc.length # length \/ acc.mode # mode
               THEN Outcome(w, c, MismatchError, 0)
          ELSE IF mode = MODE_WRITE /\ mask # full
               THEN Outcome(w, c, IncompleteWriteError, BitXor(full, mask))
          ELSE IF mask # 0
               THEN Outcome(Inner_set_bits(g, w, start, length,
                                IntBackend_get_bits(acc.backend, (0 - acc.start) + start, length)),
                            rest, nested, 0)
          ELSE Outcome(w, rest, nested, 0)

CachingBackend_end_update(g, w, c, start, length, mode) ==
    IF Len(c) = 0 THEN Outcome(w, c, NotOpenError, 0)
    ELSE
      LET acc == c[Len(c)]
          rest == SubSeq(c, 1, Len(c) - 1)
          mask == IntBackend_get_bits(acc.written, (0 - acc.start) + start, length)
          full == Mask(length)
          nested == IF Len(rest) = 0 THEN OK ELSE NestedError
      IN  IF mode = MODE_DISCARD THEN Outcome(w, rest, OK, 0)
          ELSE IF acc.start # start \/ acc.length # length \/ acc.mode # mode
               THEN Outcome(w, rest, MismatchError, 0)
          ELSE IF mode = MODE_WRITE /\ mask # full
               THEN Outcome(w, rest, IncompleteWriteError, BitXor(full, mask))
          ELSE IF mask # 0
               THEN Outcome(Inner_set_bits(g, w, start, length,
                                IntBackend_get_bits(acc.backend, (0 - acc.start) + start, length)),
                            rest, nested, 0)
          ELSE Outcome(w, rest, nested, 0)

CachingBackend_set_bits(g, w, c, start, length, val) ==
    IF Len(c) = 0 THEN Outcome(Inner_set_bits(g, w, start, length, val), c, OK, 0)
    ELSE
      LET done == CachedAccess_set_bits(c[Len(c)], start, length, val)
      IN  Outcome(w, [c EXCEPT ![Len(c)] = done.acc], done.err, 0)

\* a get_bits that forgets the open scope and reads the inner backend
CachingBackend_get_bits_uncached(g, w, c, start, length) ==
    LET got == Inner_get_bits(g, w, start, length)
    IN  Outcome(got.w, c, OK, got.ret)

CachingBackend_get_bits(g, w, c, start, length) ==
    IF Len(c) = 0
    THEN LET got == Inner_get_bits(g, w, start, length)
         IN  Outcome(got.w, c, OK, got.ret)
    ELSE
      LET got == CachedAccess_get_bits(c[Len(c)], start, length)
      IN  Outcome(w, c, got.err, got.ret)

(***************************************************************************)
(* The calls a client makes on cb, and the pops of the two recorders.      *)
(***************************************************************************)
Starts(width) == 0 .. (width - 1)
Lengths(width, start) == 1 .. (width - start)
SetValues(length) == 0 .. Mask(length)

\* Before each call the client pops both recorders empty (the tests' rec.pop()
\* up to assertTrue(rec.empty())), so after the call log and ilog hold exactly
\* the calls it made the device and the inner backend see.
World == [value |-> value, log |-> <<>>, ilog |-> <<>>]

Call(op, start, length, arg, err, ret) ==
    [op |-> op, start |-> start, length |-> length, arg |-> arg,
     err |-> err, ret |-> ret]

NoCall == Call("none", 0, 0, 0, OK, 0)

Apply(op, start, length, arg, out) ==
    /\ value' = out.w.value
    /\ log' = out.w.log
    /\ ilog' = out.w.ilog
    /\ cache' = out.cache
    /\ last' = Call(op, start, length, arg, out.err, out.ret)
    /\ UNCHANGED <<granularity, reg, region, stack, entered, inst, shared>>

\* cb.begin_update(s, l, mode), on an address space of width bits, with at most
\* depth scopes stacked
BeginIn(width, depth) ==
    \E s \in Starts(width) : \E l \in Lengths(width, s) : \E mode \in Modes :
        /\ Len(cache) < depth
        /\ Apply("begin", s, l, mode,
                 CachingBackend_begin_update(granularity, World, cache, s, l, mode))

\* cb.end_update(s, l, mode)
EndIn(width) ==
    \E s \in Starts(width) : \E l \in Lengths(width, s) : \E mode \in Modes :
        Apply("end", s, l, mode,
              CachingBackend_end_update(granularity, World, cache, s, l, mode))

\* cb.set_bits(s, l, v)
SetIn(width) ==
    \E s \in Starts(width) : \E l \in Lengths(width, s) : \E v \in SetValues(l) :
        Apply("set", s, l, v,
              CachingBackend_set_bits(granularity, World, cache, s, l, v))

\* cb.get_bits(s, l)
GetIn(width) ==
    \E s \in Starts(width) : \E l \in Lengths(width, s) :
        Apply("get", s, l, 0,
              CachingBackend_get_bits(granularity, World, cache, s, l))

(***************************************************************************)
(* RegisterInstance (types.py): a leaf bound to a backend at bit_offset,   *)
(* here straight to the IntBackend dev.  Returns [value, err] and the      *)
(* value read.                                                             *)
(***************************************************************************)
OutOfRangeError == "ValueError: value out of 0..max range"

\* a _set whose range check lets max + 1 through
RegisterInstance_set_off_by_one(v, bit_offset, bit_length, val) ==
    LET max == ShiftL(1, bit_length) - 1
    IN  IF val < 0 \/ val > max + 1
        THEN [value |-> v, err |-> OutOfRangeError]
        ELSE [value |-> IntBackend_set_bits(v, bit_offset, bit_length, val), err |-> OK]

RegisterInstance_set(v, bit_offset, bit_length, val) ==
    LET max == ShiftL(1, bit_length) - 1
    IN  IF val < 0 \/ val > max
        THEN [value |-> v, err |-> OutOfRangeError]
        ELSE [value |-> IntBackend_set_bits(v, bit_offset, bit_length, val), err |-> OK]

RegisterInstance_get(v, bit_offset, bit_length) ==
    IntBackend_get_bits(v, bit_offset, bit_length)

\* leaf._set(val), for a leaf at any span of the address space and any val from
\* one below to two above its range
LeafSet ==
    \E s \in Starts(LeafBits) : \E l \in Lengths(LeafBits, s) :
      \E val \in (0 - 1) .. (Mask(l) + 2) :
        LET out == RegisterInstance_set(value, s, l, val)
        IN  /\ value' = out.value
            /\ last' = Call("set", s, l, val, out.err, 0)
            /\ UNCHANGED <<granularity, cache, log, ilog, reg, region, stack, entered, inst, shared>>

\* leaf._get()
LeafGet ==
    \E s \in Starts(LeafBits) : \E l \in Lengths(LeafBits, s) :
        /\ last' = Call("get", s, l, 0, OK, RegisterInstance_get(value, s, l))
        /\ UNCHANGED <<value, granularity, cache, log, ilog, reg, region, stack, entered, inst, shared>>

(***************************************************************************)
(* Register.__init__ (types.py).  A definition is [bit_length, rel_bitpos, *)
(* unused]; the children list defs and the declared bit_length (or None)   *)
(* are the arguments, the outcome is [err, bit_length, defs].              *)
(***************************************************************************)
None == 0 - 1
SubLengthError == "ValueError: sum of sub-register lengths exceeds bit_length"
PastPositionError == "ValueError: register wants relative bit-position in the past"

Def(bit_length, rel_bitpos, unused) ==
    [bit_length |-> bit_length, rel_bitpos |-> rel_bitpos, unused |-> unused]

RegUnused(bit_length) == Def(bit_length, None, TRUE)

RECURSIVE SumLengths(_)
SumLengths(defs) ==
    IF defs = <<>> THEN 0 ELSE Head(defs).bit_length + SumLengths(Tail(defs))

\* list.insert(k, x), k counted from 0
Insert(defs, k, x) ==
    SubSeq(defs, 1, k) \o <<x>> \o SubSeq(defs, k + 1, Len(defs))

\* the loop over enumerate(self._defs), from child k on: [err, last_rel, padding]
RECURSIVE ScanDefs(_, _, _, _)
ScanDefs(defs, k, last_rel, padding) ==
    IF k >= Len(defs) THEN [err |-> OK, last_rel |-> last_rel, padding |-> padding]
    ELSE
      LET r == defs[k + 1]
      IN  IF r.rel_bitpos # None
          THEN LET delta == r.rel_bitpos - last_rel
               IN  IF delta < 0
                   THEN [err |-> PastPositionError, last_rel |-> last_rel,
                         padding |-> padding]
                   ELSE ScanDefs(defs, k + 1, last_rel + delta + r.bit_length,
                                 IF delta # 0
                                 THEN Append(padding, <<k, RegUnused(delta)>>)
                                 ELSE padding)
          ELSE ScanDefs(defs, k + 1, last_rel + r.bit_length, padding)

\* for k, reg in reversed(padding): self._defs.insert(k, reg)
RECURSIVE InsertPadding(_, _, _)
InsertPadding(defs, padding, i) ==
    IF i = 0 THEN defs
    ELSE InsertPadding(Insert(defs, padding[i][1], padding[i][2]), padding, i - 1)

Register_init(bit_length, defs) ==
    IF defs # <<>> /\ bit_length # None /\ bit_length < SumLengths(defs)
    THEN [err |-> SubLengthError, bit_length |-> None, defs |-> defs]
    ELSE
      LET scan == ScanDefs(defs, 0, 0, <<>>)
          padded == InsertPadding(defs, scan.padding, Len(scan.padding))
      IN  IF scan.err # OK
          THEN [err |-> scan.err, bit_length |-> None, defs |-> defs]
          ELSE IF padded # <<>>
          THEN IF bit_length = None
               THEN [err |-> OK, bit_length |-> scan.last_rel, defs |-> padded]
               ELSE IF bit_length > scan.last_rel
               THEN [err |-> OK, bit_length |-> bit_length,
                     defs |-> Append(padded, RegUnused(bit_length - scan.last_rel))]
               ELSE [err |-> OK, bit_length |-> bit_length, defs |-> padded]
          ELSE [err |-> OK, bit_length |-> bit_length, defs |-> padded]

\* the children a caller may pass: leaves of 1..MaxChildLen bits, at no or an
\* explicit relative position
Children ==
    {Def(n, p, FALSE) : n \in 1 .. MaxChildLen, p \in {None} \cup (0 .. MaxRelPos)}

DefLists == UNION {[1 .. n -> Children] : n \in 0 .. MaxChildren}

NoReg == [args |-> [bit_length |-> None, defs |-> <<>>],
          err |-> OK, bit_length |-> None, defs |-> <<>>]

\* Register(name, bit_length, defs)
Construct ==
    \E bl \in {None} \cup (1 .. MaxBitLength) : \E defs \in DefLists :
        LET out == Register_init(bl, defs)
        IN  /\ reg' = [args |-> [bit_length |-> bl, defs |-> defs],
                       err |-> out.err, bit_length |-> out.bit_length,
                       defs |-> out.defs]
            /\ UNCHANGED <<value, granularity, cache, log, ilog, last, region, stack, entered, inst, shared>>

(***************************************************************************)
(* Definitions constructed from one children list, as test_nested's        *)
(*    Register("one", defs = D), Register("two", defs = D).                *)
(* "self._defs = defs" keeps the caller's list object, and the padding is  *)
(* inserted into and appended to that object: shared.defs is the list as   *)
(* it is now, and shared.made the definitions constructed from it, each    *)
(* with its bit_length and the children it had when its constructor        *)
(* returned.  A constructor that raises does so before it changes the      *)
(* list.                                                                   *)
(***************************************************************************)
NoShared == [defs |-> <<>>, made |-> <<>>]

\* Register(name, bit_length, defs = D)
ConstructShared ==
    \E bl \in {None} \cup (1 .. MaxBitLength) :
        LET out == Register_init(bl, shared.defs)
        IN  /\ Len(shared.made) < MaxMade
            /\ shared' = IF out.err # OK THEN shared
                          ELSE [defs |-> out.defs,
                                made |-> Append(shared.made,
                                                [bit_length |-> out.bit_length,
                                                 defs |-> out.defs])]
            /\ reg' = [args |-> [bit_length |-> bl, defs |-> shared.defs],
                       err |-> out.err, bit_length |-> out.bit_length,
                       defs |-> out.defs]
            /\ UNCHANGED <<value, granularity, cache, log, ilog, last, region, stack, entered, inst>>

(***************************************************************************)
(* GranularBackend.compute_region as a function of its arguments.          *)
(***************************************************************************)
NoRegion == [g |-> 1, start |-> 0, length |-> 1, real_start |-> 0, real_end |-> 1]

\* GranularBackend(...).compute_region(start, length), with granularity g
ComputeRegion ==
    \E g \in 1 .. MaxRegionGran : \E s \in 0 .. MaxStart : \E l \in 1 .. MaxLength :
        LET r == compute_region(g, s, l)
        IN  /\ region' = [g |-> g, start |-> s, length |-> l,
                          real_start |-> r[1], real_end |-> r[2]]
            /\ UNCHANGED <<value, granularity, cache, log, ilog, last, reg, stack, entered, inst, shared>>

(***************************************************************************)
(* Chains of decorators.  stack holds the decorators from the outermost    *)
(* one down to the one that wraps the IntBackend dev.  A layer is          *)
(* [kind, param, log, cache]: param is the granularity or the offset, log  *)
(* a BackendRecorder's log, cache a CachingBackend's cache[1:].  Each      *)
(* operator below is the method of layer i of L (of dev when i > Len(L))   *)
(* and returns [layers, value, err, ret].                                  *)
(***************************************************************************)
GRANULAR == "GranularBackend"
WINDOW == "WindowBackend"
RECORDER == "BackendRecorder"
CACHING == "CachingBackend"

BEGIN == "begin"
END == "end"

\* the mode of a begin_update or end_update called with (start, length) only
Missing == "missing"
MissingModeError == "TypeError: begin_update/end_update takes exactly 4 arguments (3 given)"

Layer(kind, param) == [kind |-> kind, param |-> param, log |-> <<>>, cache |-> <<>>]

Result(L, v, err, ret) == [layers |-> L, value |-> v, err |-> err, ret |-> ret]

RECURSIVE Stack_get_bits(_, _, _, _, _)
RECURSIVE Stack_set_bits(_, _, _, _, _, _)
RECURSIVE Stack_begin_update(_, _, _, _, _, _)
RECURSIVE Stack_end_update(_, _, _, _, _, _)

Stack_get_bits(L, v, i, start, length) ==
    IF i > Len(L)
    THEN IF start < 0 THEN Result(L, v, NegativeShiftError, 0)
         ELSE Result(L, v, OK, IntBackend_get_bits(v, start, length))
    ELSE
      CASE L[i].kind = WINDOW ->
             Stack_get_bits(L, v, i + 1, L[i].param + start, length)
        [] L[i].kind = GRANULAR ->
             LET m == compute_mask(L[i].param, start, length)
                 r == Stack_get_bits(L, v, i + 1, m.rstart, m.rlen)
             IN  IF r.err # OK THEN r
                 ELSE [r EXCEPT !.ret = BitAnd(ShiftR(@, m.delta), m.mask)]
        [] L[i].kind = RECORDER ->
             LET r == Stack_get_bits(L, v, i + 1, start, length)
             IN  IF r.err # OK THEN r
                 ELSE [r EXCEPT !.layers[i].log =
                                    Append(@, Entry(GET, start, length, r.ret))]
        [] L[i].kind = CACHING ->
             IF L[i].cache = <<>>
             THEN Stack_get_bits(L, v, i + 1, start, length)
             ELSE LET got == CachedAccess_get_bits(L[i].cache[Len(L[i].cache)],
                                                   start, length)
                  IN  Result(L, v, got.err, got.ret)

\* a WindowBackend.set_bits that forgets its offset
Stack_set_bits_window_unshifted(L, v, i, start, length, val) ==
    IF i > Len(L)
    THEN IF start < 0 THEN Result(L, v, NegativeShiftError, 0)
         ELSE Result(L, IntBackend_set_bits(v, start, length, val), OK, 0)
    ELSE
      CASE L[i].kind = WINDOW ->
             Stack_set_bits(L, v, i + 1, start, length, val)
        [] L[i].kind = GRANULAR ->
             LET m == compute_mask(L[i].param, start, length)
                 rmw == m.rstart < start \/ m.rlen > length
                 r == IF rmw THEN Stack_get_bits(L, v, i + 1, m.rstart, m.rlen)
                             ELSE Result(L, v, OK, 0)
                 data == BitOr(BitAndNot(r.ret, ShiftL(m.mask, m.delta)),
                               ShiftL(val, m.delta))
             IN  IF r.err # OK THEN r
                 ELSE Stack_set_bits(r.layers, r.value, i + 1, m.rstart, m.rlen, data)
        [] L[i].kind = RECORDER ->
             Stack_set_bits([L EXCEPT ![i].log = Append(@, Entry(SET, start, length, val))],
                            v, i + 1, start, length, val)
        [] L[i].kind = CACHING ->
             IF L[i].cache = <<>>
             THEN Stack_set_bits(L, v, i + 1, start, length, val)
             ELSE LET done == CachedAccess_set_bits(L[i].cache[Len(L[i].cache)],
                                                    start, length, val)
                  IN  Result([L EXCEPT ![i].cache[Len(L[i].cache)] = done.acc],
                             v, done.err, 0)

Stack_set_bits(L, v, i, start, length, val) ==
    IF i > Len(L)
    THEN IF start < 0 THEN Result(L, v, NegativeShiftError, 0)
         ELSE Result(L, IntBackend_set_bits(v, start, length, val), OK, 0)
    ELSE
      CASE L[i].kind = WINDOW ->
             Stack_set_bits(L, v, i + 1, L[i].param + start, length, val)
        [] L[i].kind = GRANULAR ->
             LET m == compute_mask(L[i].param, start, length)
                 rmw == m.rstart < start \/ m.rlen > length
                 r == IF rmw THEN Stack_get_bits(L, v, i + 1, m.rstart, m.rlen)
                             ELSE Result(L, v, OK, 0)
                 data == BitOr(BitAndNot(r.ret, ShiftL(m.mask, m.delta)),
                               ShiftL(val, m.delta))
             IN  IF r.err # OK THEN r
                 ELSE Stack_set_bits(r.layers, r.value, i + 1, m.rstart, m.rlen, data)
        [] L[i].kind = RECORDER ->
             Stack_set_bits([L EXCEPT ![i].log = Append(@, Entry(SET, start, length, val))],
                            v, i + 1, start, length, val)
        [] L[i].kind = CACHING ->
             IF L[i].cache = <<>>
             THEN Stack_set_bits(L, v, i + 1, start, length, val)
             ELSE LET done == CachedAccess_set_bits(L[i].cache[Len(L[i].cache)],
                                                    start, length, val)
                  IN  Result([L EXCEPT ![i].cache[Len(L[i].cache)] = done.acc],
                             v, done.err, 0)

\* dev.begin_update and dev.end_update are the inherited Backend methods: "pass # nop"
Stack_begin_update(L, v, i, start, length, mode) ==
    IF i > Len(L) THEN Result(L, v, OK, 0)
    ELSE IF mode = Missing THEN Result(L, v, MissingModeError, 0)
    ELSE
      CASE L[i].kind = WINDOW ->
             Stack_begin_update(L, v, i + 1, L[i].param + start, length, Missing)
        [] L[i].kind = GRANULAR ->
             LET m == compute_mask(L[i].param, start, length)
             IN  Stack_begin_update(L, v, i + 1, m.rstart, m.rlen, mode)
        [] L[i].kind = RECORDER ->
             Stack_begin_update(
                 [L EXCEPT ![i].log = Append(@, Entry(BEGIN, start, length, mode))],
                 v, i + 1, start, length, mode)
        [] L[i].kind = CACHING ->
             LET r == IF mode # MODE_WRITE
                      THEN Stack_get_bits(L, v, i + 1, start, length)
                      ELSE Result(L, v, OK, 0)
                 acc == [start |-> start, length |-> length, mode |-> mode,
                         backend |-> IF mode # MODE_WRITE
                                     THEN IntBackend_set_bits(0, (0 - start) + start,
                                                              length, r.ret)
                                     ELSE 0,
                         written |-> 0]
             IN  IF r.err # OK THEN r
                 ELSE Result([r.layers EXCEPT ![i].cache = Append(@, acc)],
                             r.value, OK, 0)

Stack_end_update(L, v, i, start, length, mode) ==
    IF i > Len(L) THEN Result(L, v, OK, 0)
    ELSE IF mode = Missing THEN Result(L, v, MissingModeError, 0)
    ELSE
      CASE L[i].kind = WINDOW ->
             Stack_end_update(L, v, i + 1, L[i].param + start, length, Missing)
        [] L[i].kind = GRANULAR ->
             LET m == compute_mask(L[i].param, start, length)
             IN  Stack_end_update(L, v, i + 1, m.rstart, m.rlen, mode)
        [] L[i].kind = RECORDER ->
             Stack_begin_update(
                 [L EXCEPT ![i].log = Append(@, Entry(END, start, length, mode))],
                 v, i + 1, start, length, mode)
        [] L[i].kind = CACHING ->
             IF L[i].cache = <<>> THEN Result(L, v, NotOpenError, 0)
             ELSE
               LET c == L[i].cache
                   acc == c[Len(c)]
                   popped == [L EXCEPT ![i].cache = SubSeq(c, 1, Len(c) - 1)]
                   mask == IntBackend_get_bits(acc.written, (0 - acc.start) + start, length)
                   full == Mask(length)
                   nested == IF Len(c) = 1 THEN OK ELSE NestedError
                   r == Stack_set_bits(popped, v, i + 1, start, length,
                            IntBackend_get_bits(acc.backend, (0 - acc.start) + start, length))
               IN  IF mode = MODE_DISCARD THEN Result(popped, v, OK, 0)
                   ELSE IF acc.start # start \/ acc.length # length \/ acc.mode # mode
                        THEN Result(popped, v, MismatchError, 0)
                   ELSE IF mode = MODE_WRITE /\ mask # full
                        THEN Result(popped, v, IncompleteWriteError, BitXor(full, mask))
                   ELSE IF mask # 0
                        THEN IF r.err # OK THEN r ELSE [r EXCEPT !.err = nested]
                   ELSE Result(popped, v, nested, 0)

(***************************************************************************)
(* The calls a client makes on the outermost backend of stack, and the     *)
(* scoped accesses ('with' blocks) of a register instance bound to it.     *)
(* Before each call the client pops the recorders empty, as above.         *)
(***************************************************************************)
LayerKinds ==
    {Layer(GRANULAR, g) : g \in 1 .. MaxGran}
      \cup {Layer(WINDOW, o) : o \in 0 .. MaxOffset}
      \cup {Layer(RECORDER, 0), Layer(CACHING, 0)}

Stacks == UNION {[1 .. n -> LayerKinds] : n \in 0 .. MaxLayers}

Popped(L) == [i \in DOMAIN L |-> [L[i] EXCEPT !.log = <<>>]]

\* no cache of the chain holds more than MaxOpen scopes
Shallow(L) == \A i \in DOMAIN L : Len(L[i].cache) <= MaxOpen

ApplyStack(op, start, length, arg, r) ==
    /\ Shallow(r.layers)
    /\ stack' = r.layers
    /\ value' = r.value
    /\ last' = Call(op, start, length, arg, r.err, r.ret)
    /\ UNCHANGED <<granularity, cache, log, ilog, reg, region, inst, shared>>

StackSetIn(width) ==
    \E s \in Starts(width) : \E l \in Lengths(width, s) : \E v \in SetValues(l) :
        /\ ApplyStack("set", s, l, v, Stack_set_bits(Popped(stack), value, 1, s, l, v))
        /\ UNCHANGED entered

StackGetIn(width) ==
    \E s \in Starts(width) : \E l \in Lengths(width, s) :
        /\ ApplyStack("get", s, l, 0, Stack_get_bits(Popped(stack), value, 1, s, l))
        /\ UNCHANGED entered

StackBeginIn(width) ==
    \E s \in Starts(width) : \E l \in Lengths(width, s) : \E mode \in Modes :
        /\ ApplyStack("begin", s, l, mode,
                      Stack_begin_update(Popped(stack), value, 1, s, l, mode))
        /\ UNCHANGED entered

StackEndIn(width) ==
    \E s \in Starts(width) : \E l \in Lengths(width, s) : \E mode \in Modes :
        /\ ApplyStack("end", s, l, mode,
                      Stack_end_update(Popped(stack), value, 1, s, l, mode))
        /\ UNCHANGED entered

\* RegisterInstance.__enter__ of an instance at bit_offset s of bit_length l:
\* when begin_update raises, the block is not entered
Enter ==
    \E s \in Starts(ScopeBits) : \E l \in Lengths(ScopeBits, s) :
        LET r == Stack_begin_update(Popped(stack), value, 1, s, l, Missing)
        IN  /\ Len(entered) < MaxOpen
            /\ ApplyStack("enter", s, l, Missing, r)
            /\ entered' = IF r.err = OK
                          THEN Append(entered, [bit_offset |-> s, bit_length |-> l])
                          ELSE entered

\* RegisterInstance.__exit__ of the instance whose block the client leaves
Exit ==
    /\ entered # <<>>
    /\ LET me == entered[Len(entered)]
       IN  /\ ApplyStack("exit", me.bit_offset, me.bit_length, Missing,
                         Stack_end_update(Popped(stack), value, 1,
                                          me.bit_offset, me.bit_length, Missing))
           /\ entered' = SubSeq(entered, 1, Len(entered) - 1)

(***************************************************************************)
(* RegisterInstance.__init__ (types.py): a definition r, built by          *)
(* Register(name, bit_length, defs), is used under two composites,         *)
(*    nested = Register("nested", defs = [Register("one", defs = [r]),     *)
(*                                        Register("two", defs = [r])])    *)
(* and nested is instantiated over a fresh IntBackend at bit_offset 0.     *)
(* inst.leaves[k] are the spans of the leaves of r's instance under the    *)
(* k-th composite, inst.via the leaf last accessed, inst.sets the number   *)
(* of _set calls made.                                                     *)
(***************************************************************************)
\* no register map instantiated
NoInst == [args |-> [bit_length |-> None, defs |-> <<>>],
           leaves |-> <<>>, via |-> <<0, 0>>, sets |-> 0]

\* the bit_offset each child instance gets: "bit_offset += inst._bit_length"
RECURSIVE ChildOffsets(_, _)
ChildOffsets(defs, bit_offset) ==
    IF defs = <<>> THEN <<>>
    ELSE <<bit_offset>> \o ChildOffsets(Tail(defs), bit_offset + Head(defs).bit_length)

\* the spans of the leaves of an instance, at bit_offset, of a definition of
\* bit_length bits whose children are the leaves defs
Leaves(bit_length, defs, bit_offset) ==
    IF defs = <<>>
    THEN <<[bit_offset |-> bit_offset, bit_length |-> bit_length]>>
    ELSE [k \in DOMAIN defs |->
             [bit_offset |-> ChildOffsets(defs, bit_offset)[k],
              bit_length |-> defs[k].bit_length]]

\* nested(be) with be = IntBackend()
Instantiate ==
    \E bl \in {None} \cup (1 .. MaxBitLength) : \E defs \in DefLists :
        LET r == Register_init(bl, defs)
            one == Register_init(None, <<Def(r.bit_length, None, FALSE)>>)
            two == Register_init(None, <<Def(r.bit_length, None, FALSE)>>)
            nested == Register_init(None, <<Def(one.bit_length, None, FALSE),
                                            Def(two.bit_length, None, FALSE)>>)
            at == ChildOffsets(nested.defs, 0)
        IN  /\ inst = NoInst
            /\ r.err = OK /\ r.bit_length # None
            /\ inst' = [args |-> [bit_length |-> bl, defs |-> defs],
                        leaves |-> <<Leaves(r.bit_length, r.defs,
                                            ChildOffsets(one.defs, at[1])[1]),
                                     Leaves(r.bit_length, r.defs,
                                            ChildOffsets(two.defs, at[2])[1])>>,
                        via |-> <<0, 0>>, sets |-> 0]
            /\ value' = 0
            /\ last' = NoCall
            /\ UNCHANGED <<granularity, cache, log, ilog, reg, region, stack, entered, shared>>

\* leaf._set(val) through the j-th leaf of r's instance under the k-th composite
InstSet ==
    \E k \in DOMAIN inst.leaves : \E j \in DOMAIN inst.leaves[k] :
      \E val \in 0 .. Mask(inst.leaves[k][j].bit_length) :
        LET leaf == inst.leaves[k][j]
            out == RegisterInstance_set(value, leaf.bit_offset, leaf.bit_length, val)
        IN  /\ inst.sets < MaxSets
            /\ value' = out.value
            /\ last' = Call("set", leaf.bit_offset, leaf.bit_length, val, out.err, 0)
            /\ inst' = [inst EXCEPT !.via = <<k, j>>, !.sets = @ + 1]
            /\ UNCHANGED <<granularity, cache, log, ilog, reg, region, stack, entered, shared>>

\* leaf._get()
InstGet ==
    \E k \in DOMAIN inst.leaves : \E j \in DOMAIN inst.leaves[k] :
        LET leaf == inst.leaves[k][j]
        IN  /\ last' = Call("get", leaf.bit_offset, leaf.bit_length, 0, OK,
                            RegisterInstance_get(value, leaf.bit_offset, leaf.bit_length))
            /\ inst' = [inst EXCEPT !.via = <<k, j>>]
            /\ UNCHANGED <<value, granularity, cache, log, ilog, reg, region, stack, entered, shared>>

(***************************************************************************)
(* RegRO and RegWO (types.py): a register map                              *)
(*    m = Register("m", defs = [C1("f1", n1), C2("f2", n2), ...])          *)
(* whose children are leaves of the classes Register, RegRO and RegWO, is  *)
(* instantiated over a fresh IntBackend at bit_offset 0.  inst.leaves[1]   *)
(* are the children's spans and classes; via is <<1, j>> for an access     *)
(* through child j and <<1, 0>> for one through m itself.                  *)
(***************************************************************************)
REGISTER == "Register"
REGRO == "RegRO"
REGWO == "RegWO"
Classes == {REGISTER, REGRO, REGWO}

ReadOnlyRegisterError == "TypeError: read-only register"
WriteOnlyRegisterError == "TypeError: write-only register"

\* inst._set(val), by the Instance class of the definition's class
Instance_set(cls, v, bit_offset, bit_length, val) ==
    IF cls = REGRO THEN [value |-> v, err |-> ReadOnlyRegisterError]
    ELSE RegisterInstance_set(v, bit_offset, bit_length, val)

\* inst._get()
Instance_get(cls, v, bit_offset, bit_length) ==
    IF cls = REGWO THEN [err |-> WriteOnlyRegisterError, ret |-> 0]
    ELSE [err |-> OK, ret |-> RegisterInstance_get(v, bit_offset, bit_length)]

\* m = Register("m", defs = [...])(IntBackend(), magic = False)
MapInstantiate ==
    \E n \in 1 .. MaxChildren :
      \E cls \in [1 .. n -> Classes] : \E len \in [1 .. n -> 1 .. MaxChildLen] :
        LET defs == [k \in 1 .. n |-> Def(len[k], None, FALSE)]
            m == Register_init(None, defs)
            at == ChildOffsets(m.defs, 0)
        IN  /\ inst = NoInst
            /\ m.err = OK
            /\ inst' = [args |-> [bit_length |-> None, defs |-> defs],
                        leaves |-> <<[k \in DOMAIN m.defs |->
                                        [bit_offset |-> at[k],
                                         bit_length |-> m.defs[k].bit_length,
                                         cls |-> cls[k]]]>>,
                        via |-> <<1, 0>>, sets |-> 0]
            /\ value' = 0
            /\ last' = NoCall
            /\ UNCHANGED <<granularity, cache, log, ilog, reg, region, stack, entered, shared>>

\* m.fj._set(val)
MapSet ==
    /\ inst # NoInst /\ inst.sets < MaxSets
    /\ \E j \in DOMAIN inst.leaves[1] : \E val \in 0 .. Mask(inst.leaves[1][j].bit_length) :
        LET leaf == inst.leaves[1][j]
            out == Instance_set(leaf.cls, value, leaf.bit_offset, leaf.bit_length, val)
        IN  /\ value' = out.value
            /\ last' = Call("set", leaf.bit_offset, leaf.bit_length, val, out.err, 0)
            /\ inst' = [inst EXCEPT !.via = <<1, j>>, !.sets = @ + 1]
            /\ UNCHANGED <<granularity, cache, log, ilog, reg, region, stack, entered, shared>>

\* m.fj._get()
MapGet ==
    /\ inst # NoInst
    /\ \E j \in DOMAIN inst.leaves[1] :
        LET leaf == inst.leaves[1][j]
            out == Instance_get(leaf.cls, value, leaf.bit_offset, leaf.bit_length)
        IN  /\ last' = Call("get", leaf.bit_offset, leaf.bit_length, 0, out.err, out.ret)
            /\ inst' = [inst EXCEPT !.via = <<1, j>>]
            /\ UNCHANGED <<value, granularity, cache, log, ilog, reg, region, stack, entered, shared>>

\* m._set(val): m is a Register, its Instance the plain RegisterInstance
MapSetAll ==
    /\ inst # NoInst /\ inst.sets < MaxSets
    /\ LET m == Register_init(inst.args.bit_length, inst.args.defs)
       IN  \E val \in 0 .. Mask(m.bit_length) :
          LET out == Instance_set(REGISTER, value, 0, m.bit_length, val)
          IN  /\ value' = out.value
              /\ last' = Call("set", 0, m.bit_length, val, out.err, 0)
              /\ inst' = [inst EXCEPT !.via = <<1, 0>>, !.sets = @ + 1]
              /\ UNCHANGED <<granularity, cache, log, ilog, reg, region, stack, entered, shared>>


InitIn(width) ==
    /\ value \in 0 .. Mask(width)
    /\ granularity \in 1 .. MaxGran
    /\ cache = <<>>
    /\ log = <<>>
    /\ ilog = <<>>
    /\ last = NoCall
    /\ reg = NoReg
    /\ region = NoRegion
    /\ stack = <<>>
    /\ entered = <<>>
    /\ inst = NoInst
    /\ shared = NoShared

(***************************************************************************)
(* Spec: one scope at a time (the supported use) on MemBits bits.          *)
(***************************************************************************)
Init == InitIn(MemBits)
Begin == BeginIn(MemBits, 1)
End == EndIn(MemBits)
Set == SetIn(MemBits)
Get == GetIn(MemBits)

Next == Begin \/ End \/ Set \/ Get

Spec == Init /\ [][Next]_vars

(***************************************************************************)
(* SpecNest: scopes begun inside scopes, up to MaxDepth, on NestBits bits. *)
(***************************************************************************)
InitNest == InitIn(NestBits)
NestBegin == BeginIn(NestBits, MaxDepth)
NestEnd == EndIn(NestBits)
NestSet == SetIn(NestBits)
NestGet == GetIn(NestBits)

NextNest == NestBegin \/ NestEnd \/ NestSet \/ NestGet

SpecNest == InitNest /\ [][NextNest]_vars

(***************************************************************************)
(* SpecLeaf: register leaves over a fresh IntBackend().                    *)
(***************************************************************************)
InitLeaf ==
    /\ value = 0
    /\ granularity = 1
    /\ cache = <<>>
    /\ log = <<>>
    /\ ilog = <<>>
    /\ last = NoCall
    /\ reg = NoReg
    /\ region = NoRegion
    /\ stack = <<>>
    /\ entered = <<>>
    /\ inst = NoInst
    /\ shared = NoShared

NextLeaf == LeafSet \/ LeafGet

SpecLeaf == InitLeaf /\ [][NextLeaf]_vars

(***************************************************************************)
(* SpecLayout: constructions of composite definitions.                     *)
(***************************************************************************)
NextLayout == Construct

SpecLayout == InitLeaf /\ [][NextLayout]_vars

(***************************************************************************)
(* SpecRegion: calls of compute_region.                                    *)
(***************************************************************************)
NextRegion == ComputeRegion

SpecRegion == InitLeaf /\ [][NextRegion]_vars

(***************************************************************************)
(* SpecStack: get_bits and set_bits through any chain of at most MaxLayers *)
(* decorators over dev, no scope Open.                                     *)
(***************************************************************************)
InitStackIn(width) ==
    /\ value \in 0 .. Mask(width + MaxOffset)
    /\ granularity = 1
    /\ cache = <<>>
    /\ log = <<>>
    /\ ilog = <<>>
    /\ last = NoCall
    /\ reg = NoReg
    /\ region = NoRegion
    /\ stack \in Stacks
    /\ entered = <<>>
    /\ inst = NoInst
    /\ shared = NoShared

InitStack == InitStackIn(StackBits)
StackSet == StackSetIn(StackBits)
StackGet == StackGetIn(StackBits)

NextStack == StackSet \/ StackGet

SpecStack == InitStack /\ [][NextStack]_vars

(***************************************************************************)
(* SpecScope: the same chains on ScopeBits bits, with scopes begun and     *)
(* ended on the outermost backend, by calls and by 'with' blocks.          *)
(***************************************************************************)
InitScope == InitStackIn(ScopeBits)
ScopeSet == StackSetIn(ScopeBits)
ScopeGet == StackGetIn(ScopeBits)
ScopeBegin == StackBeginIn(ScopeBits)
ScopeEnd == StackEndIn(ScopeBits)

NextScope == ScopeSet \/ ScopeGet \/ ScopeBegin \/ ScopeEnd \/ Enter \/ Exit

SpecScope == InitScope /\ [][NextScope]_vars

(***************************************************************************)
(* SpecGran: the four calls on a GranularBackend over a BackendRecorder    *)
(* over dev (test_granular_access), on StackBits bits.                     *)
(***************************************************************************)
InitGran ==
    /\ value \in 0 .. Mask(StackBits + MaxGran)
    /\ granularity = 1
    /\ cache = <<>>
    /\ log = <<>>
    /\ ilog = <<>>
    /\ last = NoCall
    /\ reg = NoReg
    /\ region = NoRegion
    /\ stack \in {<<Layer(GRANULAR, g), Layer(RECORDER, 0)>> : g \in 1 .. MaxGran}
    /\ entered = <<>>
    /\ inst = NoInst
    /\ shared = NoShared

GranSet == StackSetIn(StackBits)
GranGet == StackGetIn(StackBits)
GranBegin == StackBeginIn(StackBits)
GranEnd == StackEndIn(StackBits)

\* gb.set_bits(s, l, v) with a value one bit wider than l bits
GranSetWide ==
    \E s \in Starts(StackBits) : \E l \in Lengths(StackBits, s) :
      \E v \in (Mask(l) + 1) .. Mask(l + 1) :
        /\ ApplyStack("set", s, l, v, Stack_set_bits(Popped(stack), value, 1, s, l, v))
        /\ UNCHANGED entered

NextGran == GranSet \/ GranGet \/ GranBegin \/ GranEnd \/ GranSetWide

SpecGran == InitGran /\ [][NextGran]_vars

(***************************************************************************)
(* SpecInst: one definition instantiated under two composites.             *)
(***************************************************************************)
NextInst == Instantiate \/ InstSet \/ InstGet

SpecInst == InitLeaf /\ [][NextInst]_vars

(***************************************************************************)
(* SpecShare: definitions constructed one after the other from the same    *)
(* list of children.                                                       *)
(***************************************************************************)
InitShare ==
    /\ value = 0
    /\ granularity = 1
    /\ cache = <<>>
    /\ log = <<>>
    /\ ilog = <<>>
    /\ last = NoCall
    /\ reg = NoReg
    /\ region = NoRegion
    /\ stack = <<>>
    /\ entered = <<>>
    /\ inst = NoInst
    /\ shared \in {[defs |-> D, made |-> <<>>] : D \in DefLists \ {<<>>}}

NextShare == ConstructShared

SpecShare == InitShare /\ [][NextShare]_vars

(***************************************************************************)
(* SpecMap: a register map of Register, RegRO and RegWO leaves.            *)
(***************************************************************************)
NextMap == MapInstantiate \/ MapSet \/ MapGet \/ MapSetAll

SpecMap == InitLeaf /\ [][NextMap]_vars

(***************************************************************************)
(* Vocabulary of the properties.  Bits reads a span bit by bit, and        *)
(* Region is the aligned span around [start, start+length), both stated    *)
(* without the operators of the model of the code.                         *)
(***************************************************************************)
RECURSIVE Bits(_, _, _)
Bits(x, start, length) ==
    IF length = 0 THEN 0
    ELSE Bit(x, start) + 2 * Bits(x, start + 1, length - 1)

Idle == cache = <<>>
Open == Len(cache) = 1
Top == cache[Len(cache)]

\* the step is the call op
Did(op) == last'.op = op

\* the step is end_update called with the span and mode the open scope was begun with
MatchedEnd(mode) ==
    /\ Open /\ Did("end")
    /\ Top.mode = mode /\ last'.arg = mode
    /\ last'.start = Top.start /\ last'.length = Top.length

\* the bits of the open scope's span that were set in it, and its shadow value
WrittenMask == Bits(Top.written, 0, Top.length)
Shadow == Bits(Top.backend, 0, Top.length)

Gets(lg) == Cardinality({i \in 1 .. Len(lg) : lg[i].kind = GET})
Sets(lg) == Cardinality({i \in 1 .. Len(lg) : lg[i].kind = SET})

(***************************************************************************)
(* C1.  In every reachable state of a CachingBackend at most one scope is  *)
(* Open: a begin_update issued while a scope is already Open fails and     *)
(* does not open a second scope.  (SpecNest; begin_update has no such      *)
(* check, so the statement is violated.)                                   *)
(***************************************************************************)
C1_AtMostOneOpenScope ==
    /\ Len(cache) <= 1
    /\ (last.op = "begin" /\ last.err = OK) => Len(cache) = 1

(***************************************************************************)
(* C2 as stated.  For one ReadModifyWrite scope the inner backend receives *)
(* exactly one get_bits at begin_update over the scope's span, no call     *)
(* while the scope is Open, and at end_update exactly one set_bits over    *)
(* the full span if at least one set_bits was made inside the scope        *)
(* (acc.written # 0: every successful set_bits marks at least one bit)     *)
(* and no call if none was made.                                           *)
(***************************************************************************)
C2_BeginAndOpen ==
    /\ (Idle /\ Did("begin") /\ last'.arg = MODE_RMW) =>
          ilog' = <<Entry(GET, last'.start, last'.length,
                          Bits(value, last'.start, last'.length))>>
    /\ (Open /\ Top.mode = MODE_RMW /\ (Did("set") \/ Did("get"))) => ilog' = <<>>

C2_CommitIffSetMade ==
    [][ /\ C2_BeginAndOpen
        /\ MatchedEnd(MODE_RMW) =>
              IF Top.written # 0
              THEN ilog' = <<Entry(SET, Top.start, Top.length, Shadow)>>
              ELSE ilog' = <<>> ]_vars

(***************************************************************************)
(* C2 as amended.  The same, but end_update issues the one set_bits over   *)
(* the full span if and only if at least one bit of the scope's span was   *)
(* set inside the scope; a set_bits that lies wholly beyond the span       *)
(* succeeds and commits nothing.                                           *)
(***************************************************************************)
C2_CommitIffSpanBitSet ==
    [][ /\ C2_BeginAndOpen
        /\ MatchedEnd(MODE_RMW) =>
              /\ last'.err = OK
              /\ IF WrittenMask # 0
                 THEN ilog' = <<Entry(SET, Top.start, Top.length, Shadow)>>
                 ELSE ilog' = <<>> ]_vars

\* a ReadModifyWrite scope with a set in it has been closed and committed
C2_Witness ==
    /\ last.op = "end" /\ last.arg = MODE_RMW /\ last.err = OK
    /\ Len(ilog) = 1 /\ ilog[1].kind = SET

SpanBits == 0 .. (Top.length - 1)
AllBits == 0 .. (MemBits + MaxGran)

C4_UnwrittenKeepSeed ==
    (Open /\ Top.mode = MODE_RMW) =>
        \A i \in SpanBits :
            Bit(Top.written, i) = 0 => Bit(Top.backend, i) = Bit(value, Top.start + i)

C4_ShadowOverlay ==
    [][ /\ C4_UnwrittenKeepSeed'
        /\ (Idle /\ Did("begin") /\ last'.arg = MODE_RMW) =>
              /\ Len(cache') = 1 /\ value' = value
              /\ cache'[1].written = 0
              /\ cache'[1].backend = Bits(value, last'.start, last'.length)
        /\ (Open /\ Top.mode = MODE_RMW /\ Did("set") /\ last'.err = OK) =>
              /\ value' = value
              /\ \A i \in SpanBits :
                    Bit(cache'[1].backend, i) =
                        IF /\ last'.start <= Top.start + i
                           /\ Top.start + i < last'.start + last'.length
                        THEN Bit(last'.arg, (Top.start + i) - last'.start)
                        ELSE Bit(Top.backend, i)
        /\ (/\ Open /\ Top.mode = MODE_RMW /\ Did("get")
            /\ Top.start <= last'.start
            /\ last'.start + last'.length <= Top.start + Top.length) =>
              /\ last'.err = OK
              /\ last'.ret = Bits(Top.backend, last'.start - Top.start, last'.length)
              /\ cache' = cache /\ value' = value
        /\ MatchedEnd(MODE_RMW) =>
              \A b \in AllBits :
                  Bit(value', b) =
                      IF WrittenMask # 0 /\ Top.start <= b /\ b < Top.start + Top.length
                      THEN Bit(Top.backend, b - Top.start)
                      ELSE Bit(value, b) ]_vars

\* in an Open ReadModifyWrite scope over two bits, of which only the upper one
\* was set, a get_bits of the span has returned the overlay: the set bit over
\* the begin-time bit
C4_Witness ==
    /\ Open /\ Top.mode = MODE_RMW
    /\ Top.start = 0 /\ Top.length = 2
    /\ WrittenMask = 2 /\ Bit(value, 0) = 1 /\ Bit(value, 1) = 0
    /\ last.op = "get" /\ last.start = 0 /\ last.length = 2 /\ last.ret = 3

(***************************************************************************)
(* C5.  end_update in Discard mode drops the Open scope without any        *)
(* set_bits to the inner backend: no call is made below the cache at       *)
(* begin-to-end of the scope other than the seeding read, so the inner     *)
(* backend's contents equal those before begin_update whatever was set in  *)
(* the scope, and afterwards the CachingBackend is Idle: get_bits returns  *)
(* the inner backend's values.                                             *)
(***************************************************************************)
C5_DiscardDropsScope ==
    [][ /\ (Open /\ Did("end") /\ last'.arg = MODE_DISCARD) =>
              /\ last'.err = OK
              /\ cache' = <<>>
              /\ value' = value
              /\ ilog' = <<>> /\ log' = <<>>
        /\ (Idle /\ Did("begin")) => value' = value /\ Sets(ilog') = 0
        /\ (Open /\ (Did("set") \/ Did("get"))) => value' = value /\ ilog' = <<>>
        /\ (Idle /\ Did("get")) =>
              /\ last'.ret = Bits(value, last'.start, last'.length)
              /\ Idle' ]_vars

\* a scope has been dropped by end_update in Discard mode, leaving the cache Idle
\* and the device untouched
C5_Witness ==
    /\ last.op = "end" /\ last.arg = MODE_DISCARD /\ last.err = OK
    /\ Idle /\ ilog = <<>>
    /\ value # 0

(***************************************************************************)
(* C6.  While a scope is Open, set_bits in a Read-mode scope and get_bits  *)
(* in a Write-mode scope both fail with AccessViolation, and the failed    *)
(* call changes neither the shadow buffer, nor the written-bitmask, nor    *)
(* the inner backend.                                                      *)
(***************************************************************************)
C6_ModeViolationsFail ==
    [][ /\ (Open /\ Top.mode = MODE_READ /\ Did("set")) =>
              /\ last'.err = ReadOnlyError
              /\ cache' = cache /\ value' = value
              /\ ilog' = <<>> /\ log' = <<>>
        /\ (Open /\ Top.mode = MODE_WRITE /\ Did("get")) =>
              /\ last'.err = WriteOnlyError
              /\ cache' = cache /\ value' = value
              /\ ilog' = <<>> /\ log' = <<>> ]_vars

\* a set_bits has failed in a Read-mode scope that is still open
C6_Witness ==
    /\ Open /\ Top.mode = MODE_READ
    /\ last.op = "set" /\ last.err = ReadOnlyError

(***************************************************************************)
(* C7 as stated.  With the CachingBackend over the GranularBackend over    *)
(* the device, one ReadModifyWrite scope makes the device see exactly one  *)
(* get (the one of begin_update) and at most one set for the whole scope,  *)
(* also when the span is shorter than or misaligned to the granularity.    *)
(***************************************************************************)
C7_OpenSeesNothing ==
    /\ (Idle /\ Did("begin") /\ last'.arg = MODE_RMW) =>
          Gets(log') = 1 /\ Sets(log') = 0
    /\ (Open /\ Top.mode = MODE_RMW /\ (Did("set") \/ Did("get"))) => log' = <<>>

C7_OneGetPerScope ==
    [][ /\ C7_OpenSeesNothing
        /\ MatchedEnd(MODE_RMW) => Gets(log') = 0 /\ Sets(log') <= 1 ]_vars

(***************************************************************************)
(* C7 as amended.  The device sees exactly one get when the scope opens,   *)
(* nothing while it is Open, nothing at a close that commits nothing, and  *)
(* at a committing close exactly one set over the aligned region, preceded *)
(* by one more get of that region when the scope's span is not itself a    *)
(* whole aligned region (shorter than or misaligned to the granularity).   *)
(***************************************************************************)
RegionStart(g, start) == g * (start \div g)
RegionEnd(g, end) == g * ((end + g - 1) \div g)
WholeRegion(g, start, length) == start % g = 0 /\ length % g = 0

C7_OneGetPlusReadBack ==
    [][ /\ C7_OpenSeesNothing
        /\ MatchedEnd(MODE_RMW) =>
              LET g == granularity
                  rs == RegionStart(g, Top.start)
                  rl == RegionEnd(g, Top.start + Top.length) - rs
              IN  IF WrittenMask = 0 THEN log' = <<>>
                  ELSE IF WholeRegion(g, Top.start, Top.length)
                       THEN /\ Len(log') = 1
                            /\ log'[1] = Entry(SET, rs, rl, Shadow)
                       ELSE /\ Len(log') = 2
                            /\ log'[1] = Entry(GET, rs, rl, Bits(value, rs, rl))
                            /\ log'[2].kind = SET
                            /\ log'[2].start = rs /\ log'[2].length = rl
                            /\ \A j \in 0 .. (rl - 1) :
                                  Bit(log'[2].data, j) =
                                      IF Top.start <= rs + j /\ rs + j < Top.start + Top.length
                                      THEN Bit(Top.backend, (rs + j) - Top.start)
                                      ELSE Bit(value, rs + j)
                            /\ log'[2].data < 2 ^ rl ]_vars

\* a ReadModifyWrite scope on a span that is no whole region has committed
C7_Witness ==
    /\ last.op = "end" /\ last.arg = MODE_RMW /\ last.err = OK
    /\ ~WholeRegion(granularity, last.start, last.length)
    /\ Len(log) = 2

(***************************************************************************)
(* C8.  For every leaf of width n bound to a backend and every v in        *)
(* [0, 2^n - 1], set(v) succeeds and a get that follows it returns v; set  *)
(* of any v < 0 or v > 2^n - 1 fails with OutOfRange and leaves the        *)
(* backend unchanged.  (SpecLeaf)                                          *)
(***************************************************************************)
C8_SetGetRoundTrip ==
    [][ /\ (Did("set") /\ 0 <= last'.arg /\ last'.arg <= (2 ^ last'.length) - 1) =>
              last'.err = OK
        /\ (Did("set") /\ (last'.arg < 0 \/ last'.arg > (2 ^ last'.length) - 1)) =>
              last'.err = OutOfRangeError /\ value' = value
        /\ (/\ last.op = "set" /\ last.err = OK /\ Did("get")
            /\ last'.start = last.start /\ last'.length = last.length) =>
              last'.ret = last.arg ]_vars

\* a get has returned the non-zero value a set must have put there
C8_Witness ==
    /\ last.op = "get" /\ last.err = OK
    /\ last.length = 2 /\ last.start = 1 /\ last.ret = 2
    /\ value = 5

(***************************************************************************)
(* C9.  For every successfully constructed composite definition, the sum   *)
(* of its direct children's bit lengths, synthesized padding included,     *)
(* equals the composite's bit_length, also when the composite declares its *)
(* bit_length and children declare explicit relative positions.            *)
(* (SpecLayout; violated: the declared length is compared with the         *)
(* children's lengths before the padding is known.)                        *)
(***************************************************************************)
C9_ChildrenSumToLength ==
    (reg.err = OK /\ reg.defs # <<>>) => SumLengths(reg.defs) = reg.bit_length

(***************************************************************************)
(* C10.  For every start >= 0, length >= 1 and granularity g,              *)
(* compute_region(start, length) returns (real_start, real_end), both      *)
(* multiples of g, with real_start <= start and start+length <= real_end,  *)
(* and it is the minimal such span: start - real_start < g and             *)
(* real_end - (start+length) < g.  (SpecRegion)                            *)
(***************************************************************************)
C10_RegionAlignedMinimal ==
    /\ region.real_start % region.g = 0
    /\ region.real_end % region.g = 0
    /\ region.real_start <= region.start
    /\ region.start + region.length <= region.real_end
    /\ region.start - region.real_start < region.g
    /\ region.real_end - (region.start + region.length) < region.g

\* a span crossing a boundary, as compute_region(31, 2) == (0, 64) at granularity 32
C10_Witness ==
    /\ region.g = 4 /\ region.start = 3 /\ region.length = 2
    /\ region.real_start = 0 /\ region.real_end = 8

(***************************************************************************)
(* C11.  GranularBackend.set_bits reads the aligned region from the inner  *)
(* backend before writing if and only if the requested span is not itself  *)
(* exactly an aligned full-width region; in both cases it then issues      *)
(* exactly one inner set_bits over the aligned region, after the read if   *)
(* there is one.  (The Idle cache hands set_bits to gb unchanged; log is   *)
(* what gb's inner backend receives.)                                      *)
(***************************************************************************)
C11_ReadIffNotWholeRegion ==
    [][ (Idle /\ Did("set")) =>
          LET g == granularity
              rs == RegionStart(g, last'.start)
              rl == RegionEnd(g, last'.start + last'.length) - rs
          IN  IF WholeRegion(g, last'.start, last'.length)
              THEN /\ Len(log') = 1
                   /\ log'[1] = Entry(SET, rs, rl, last'.arg)
              ELSE /\ Len(log') = 2
                   /\ log'[1] = Entry(GET, rs, rl, Bits(value, rs, rl))
                   /\ log'[2].kind = SET
                   /\ log'[2].start = rs /\ log'[2].length = rl ]_vars

\* outside any scope, a set_bits of the first bit of a wider region has read
\* the region and written it back with the other bit kept
C11_Witness ==
    /\ Idle /\ last.op = "set" /\ last.start = 0 /\ last.length = 1
    /\ granularity = 2
    /\ Len(log) = 2 /\ log[1].kind = GET /\ log[2].kind = SET
    /\ Bit(log[1].data, 1) = 1 /\ Bit(log[2].data, 1) = 1

(***************************************************************************)
(* C12.  For any stack of GranularBackend, WindowBackend, BackendRecorder  *)
(* and CachingBackend (no scope Open) over an IntBackend, set_bits(s, l,   *)
(* v) with 0 <= v < 2^l followed by get_bits(s, l) returns v and no bit    *)
(* outside [s, s+l) changes its value as read through the stack: get and   *)
(* set through the stack give the same results as on a bare IntBackend,    *)
(* at the address moved by the offsets of the stack's windows.             *)
(* (SpecStack)                                                             *)
(***************************************************************************)
RECURSIVE ChainOffset(_)
ChainOffset(L) ==
    IF L = <<>> THEN 0
    ELSE (IF Head(L).kind = WINDOW THEN Head(L).param ELSE 0) + ChainOffset(Tail(L))

DeviceBits == 0 .. (StackBits + MaxLayers * MaxOffset + MaxGran)

C12_StackAsBareInt ==
    [][ LET at == ChainOffset(stack) + last'.start
        IN  /\ Did("set") =>
                  /\ last'.err = OK
                  /\ \A b \in DeviceBits :
                        Bit(value', b) = IF at <= b /\ b < at + last'.length
                                         THEN Bit(last'.arg, b - at)
                                         ELSE Bit(value, b)
            /\ Did("get") =>
                  /\ last'.err = OK
                  /\ last'.ret = Bits(value, at, last'.length)
                  /\ value' = value
            /\ (/\ last.op = "set" /\ Did("get")
                /\ last'.start = last.start /\ last'.length = last.length) =>
                  last'.ret = last.arg ]_vars

\* through a GranularBackend of granularity 2 over a WindowBackend of offset 1,
\* a get_bits has returned the bit a set_bits put at device bit 2, the other bit
\* of its region being kept
C12_Witness ==
    /\ Len(stack) = 2
    /\ stack[1].kind = GRANULAR /\ stack[1].param = 2
    /\ stack[2].kind = WINDOW /\ stack[2].param = 1
    /\ last.op = "get" /\ last.start = 1 /\ last.length = 1 /\ last.ret = 1
    /\ Bit(value, 2) = 1 /\ Bit(value, 1) = 0

(***************************************************************************)
(* C13.  When the same definition subtree is instantiated under two        *)
(* different composites over one backend, the two instances occupy         *)
(* disjoint bit spans, so after any sequence of sets a set through a leaf  *)
(* of one instance never changes the value read through any leaf of the    *)
(* other.  (SpecInst; violated by a subtree whose declared bit_length is   *)
(* shorter than its children with their padding, see C9.)                  *)
(***************************************************************************)
SpanOf(leaf) == leaf.bit_offset .. (leaf.bit_offset + leaf.bit_length - 1)

C13_InstancesDoNotInterfere ==
    [][ /\ \A a \in DOMAIN inst'.leaves : \A b \in DOMAIN inst'.leaves :
              a # b =>
                \A i \in DOMAIN inst'.leaves[a] : \A j \in DOMAIN inst'.leaves[b] :
                    SpanOf(inst'.leaves[a][i]) \cap SpanOf(inst'.leaves[b][j]) = {}
        /\ Did("set") =>
              \A b \in DOMAIN inst.leaves : \A j \in DOMAIN inst.leaves[b] :
                  b # inst'.via[1] =>
                      Bits(value', inst.leaves[b][j].bit_offset,
                                   inst.leaves[b][j].bit_length)
                        = Bits(value, inst.leaves[b][j].bit_offset,
                                      inst.leaves[b][j].bit_length) ]_vars

(***************************************************************************)
(* C14.  Constructing a composite whose declared bit_length is smaller     *)
(* than the length its children require (the children's lengths plus the   *)
(* padding synthesized for their explicit positions) fails with            *)
(* LayoutError; no such composite is ever constructed.  (SpecLayout;       *)
(* violated: only the children's own lengths are compared with the         *)
(* declared bit_length.)                                                   *)
(***************************************************************************)
\* where the layout cursor stands after the children defs, starting from at
RECURSIVE Cursor(_, _)
Cursor(defs, at) ==
    IF defs = <<>> THEN at
    ELSE Cursor(Tail(defs),
                (IF Head(defs).rel_bitpos # None /\ Head(defs).rel_bitpos > at
                 THEN Head(defs).rel_bitpos ELSE at) + Head(defs).bit_length)

C14_ShortLengthRejected ==
    (/\ reg.args.defs # <<>>
     /\ reg.args.bit_length # None
     /\ reg.args.bit_length < Cursor(reg.args.defs, 0)) => reg.err # OK

(***************************************************************************)
(* C15.  Entering a scoped access on a register instance calls             *)
(* begin_update(offset, length, mode) on its backend, and leaving the      *)
(* scope, normally or because the body failed, calls end_update exactly    *)
(* once with the identical (offset, length, mode); begin and end calls on  *)
(* the backend therefore strictly alternate.  Stated on the call the       *)
(* backend receives (last.arg is the mode it is handed) and, where the     *)
(* backend is a BackendRecorder, on what it logs.  (SpecScope; violated:   *)
(* __enter__ and __exit__ hand the backend no mode.)                       *)
(***************************************************************************)
RecorderOnTop == stack # <<>> /\ stack[1].kind = RECORDER

C15_EnterBeginsExitEnds ==
    [][ /\ Did("enter") =>
              /\ last'.arg \in Modes
              /\ last'.err = OK
              /\ entered' = Append(entered, [bit_offset |-> last'.start,
                                             bit_length |-> last'.length])
              /\ RecorderOnTop =>
                    stack'[1].log = <<Entry(BEGIN, last'.start, last'.length, last'.arg)>>
        /\ Did("exit") =>
              /\ last'.arg \in Modes
              /\ last'.start = entered[Len(entered)].bit_offset
              /\ last'.length = entered[Len(entered)].bit_length
              /\ RecorderOnTop =>
                    stack'[1].log = <<Entry(END, last'.start, last'.length, last'.arg)>> ]_vars

(***************************************************************************)
(* C16.  A Write-mode scope over a composite register closes successfully  *)
(* when only its writable leaves were set, its read-only and unused        *)
(* padding bits never being written, and then commits exactly one set_bits *)
(* over the composite's full span with those unwritten bits zero.  The     *)
(* leaves' _set calls are the set_bits made inside the scope, so some but  *)
(* not all bits of the span are written.  (Spec; violated: end_update      *)
(* raises for every bit left unwritten, whatever leaf it belongs to.)      *)
(***************************************************************************)
C16_SparseWriteCloses ==
    [][ (MatchedEnd(MODE_WRITE) /\ WrittenMask # 0) =>
            /\ last'.err = OK
            /\ Len(ilog') = 1
            /\ ilog'[1].kind = SET
            /\ ilog'[1].start = Top.start /\ ilog'[1].length = Top.length
            /\ \A i \in SpanBits :
                  Bit(ilog'[1].data, i) =
                      IF Bit(Top.written, i) = 1 THEN Bit(Top.backend, i) ELSE 0 ]_vars

(***************************************************************************)
(* C17 as stated.  An end_update whose (start, length, mode) differs from  *)
(* that of the begin_update that opened the scope fails as a programming   *)
(* error (assertion) and commits nothing to the inner backend.             *)
(***************************************************************************)
Mismatched ==
    /\ Open /\ Did("end")
    /\ \/ last'.start # Top.start
       \/ last'.length # Top.length
       \/ last'.arg # Top.mode

CommitsNothing == ilog' = <<>> /\ log' = <<>> /\ value' = value

C17_MismatchedEndFails ==
    [][ Mismatched => last'.err = MismatchError /\ CommitsNothing ]_vars

(***************************************************************************)
(* C17 as amended.  The same for an end_update whose mode is not Discard;  *)
(* an end_update in Discard mode returns normally whatever the span and    *)
(* mode the scope was opened with, and commits nothing either.             *)
(***************************************************************************)
C17_MismatchedEndFailsUnlessDiscard ==
    [][ Mismatched =>
            /\ CommitsNothing
            /\ last'.err = IF last'.arg = MODE_DISCARD THEN OK ELSE MismatchError ]_vars

\* a scope has been ended with another span than it was begun with: the call
\* has failed and nothing was issued below the cache
C17_Witness ==
    /\ last.op = "end" /\ last.err = MismatchError
    /\ last.arg = MODE_RMW /\ last.start = 1 /\ last.length = 1
    /\ Idle /\ ilog = <<>> /\ value = 0

(***************************************************************************)
(* C18.  begin_update in Write mode performs no get_bits on the inner      *)
(* backend and starts the shadow buffer at zero; no inner read happens at  *)
(* any point of a Write-mode scope.  (ilog is what the cache's inner       *)
(* backend receives.)                                                      *)
(***************************************************************************)
C18_WriteScopeNeverReads ==
    [][ /\ (Idle /\ Did("begin") /\ last'.arg = MODE_WRITE) =>
              /\ last'.err = OK
              /\ ilog' = <<>> /\ log' = <<>>
              /\ Len(cache') = 1
              /\ cache'[1].backend = 0 /\ cache'[1].written = 0
        /\ (Open /\ Top.mode = MODE_WRITE) => Gets(ilog') = 0 ]_vars

\* a Write-mode scope has been opened over two bits the device holds as ones,
\* and its shadow buffer is zero
C18_Witness ==
    /\ Open /\ Top.mode = MODE_WRITE /\ Top.start = 0 /\ Top.length = 2
    /\ last.op = "begin"
    /\ value = 3 /\ Top.backend = 0

(***************************************************************************)
(* C19.  BackendRecorder forwards each get_bits, set_bits, begin_update    *)
(* and end_update to the same operation of its inner backend with          *)
(* unchanged arguments, so a backend stack with a recorder inserted goes   *)
(* through the same inner states (in particular Idle/Open of a             *)
(* CachingBackend below it) as the stack without it: a call on a recorder  *)
(* leaves the chain below it and the device as the same call made on its   *)
(* inner backend does, with the same result.  (SpecScope; violated:        *)
(* end_update forwards to begin_update.)                                   *)
(***************************************************************************)
\* the step is a call the client makes with all its arguments
DidCall == Did("get") \/ Did("set") \/ Did("begin") \/ Did("end")

\* the outcome of the step's call had it been made on the second backend of
\* the chain, at start
OnInner(start) ==
    CASE Did("get") ->
           Stack_get_bits(Popped(stack), value, 2, start, last'.length)
      [] Did("set") ->
           Stack_set_bits(Popped(stack), value, 2, start, last'.length, last'.arg)
      [] Did("begin") ->
           Stack_begin_update(Popped(stack), value, 2, start, last'.length, last'.arg)
      [] Did("end") ->
           Stack_end_update(Popped(stack), value, 2, start, last'.length, last'.arg)

SameAsOnInner(start) ==
    /\ Tail(stack') = Tail(OnInner(start).layers)
    /\ value' = OnInner(start).value
    /\ last'.err = OnInner(start).err
    /\ last'.ret = OnInner(start).ret

C19_RecorderIsTransparent ==
    [][ (RecorderOnTop /\ DidCall) => SameAsOnInner(last'.start) ]_vars

(***************************************************************************)
(* C20.  WindowBackend forwards get_bits, set_bits, begin_update and       *)
(* end_update to its inner backend with start replaced by offset + start   *)
(* and with length, value and mode unchanged.  (SpecScope; violated:       *)
(* begin_update and end_update forward no mode.)                           *)
(***************************************************************************)
WindowOnTop == stack # <<>> /\ stack[1].kind = WINDOW

C20_WindowShiftsStartOnly ==
    [][ (WindowOnTop /\ DidCall) => SameAsOnInner(stack[1].param + last'.start) ]_vars

(***************************************************************************)
(* C21.  Every call a GranularBackend issues to its inner backend          *)
(* (get_bits, set_bits, begin_update, end_update) has a start and a length *)
(* that are multiples of the granularity, whatever span was requested; and *)
(* every call on the GranularBackend issues at least one.  The recorder    *)
(* right under the GranularBackend holds the calls of the last call.       *)
(***************************************************************************)
\* the calls the GranularBackend at layer i issued in the last call
Issued(i) == stack[i + 1].log

C21_InnerCallsAligned ==
    \A i \in 1 .. (Len(stack) - 1) :
        (stack[i].kind = GRANULAR /\ stack[i + 1].kind = RECORDER) =>
            /\ \A k \in DOMAIN Issued(i) :
                   /\ Issued(i)[k].start % stack[i].param = 0
                   /\ Issued(i)[k].length % stack[i].param = 0
                   /\ Issued(i)[k].length > 0
            /\ (i = 1 /\ last.op # "none") => Issued(i) # <<>>

\* an end_update whose start and length are no multiples of the granularity
\* was handed on
C21_Witness ==
    /\ Len(stack) = 2 /\ stack[1].kind = GRANULAR /\ stack[2].kind = RECORDER
    /\ last.op = "end" /\ last.err = OK
    /\ last.start % stack[1].param # 0
    /\ last.length % stack[1].param # 0
    /\ Len(Issued(1)) = 1 /\ Issued(1)[1].kind = END

(***************************************************************************)
(* C22.  In every instantiated composite the children occupy consecutive,  *)
(* pairwise non-overlapping spans in declaration order, starting at the    *)
(* composite's absolute offset and lying within the composite's span, and  *)
(* a child declared at relative position p starts at the composite's       *)
(* offset + p.  The composites are the two instances of r, the k-th one at *)
(* (k - 1) * r.bit_length under nested.                                    *)
(***************************************************************************)
\* the definition r that was instantiated
Instantiated == Register_init(inst.args.bit_length, inst.args.defs)

C22_ChildrenLaidOutInSpan ==
    (inst # NoInst /\ Instantiated.defs # <<>>) =>
        \A k \in DOMAIN inst.leaves :
            LET r == Instantiated
                at == (k - 1) * r.bit_length
                child == inst.leaves[k]
            IN  /\ Len(child) = Len(r.defs)
                /\ child[1].bit_offset = at
                /\ \A j \in 1 .. (Len(child) - 1) :
                       child[j + 1].bit_offset = child[j].bit_offset + child[j].bit_length
                /\ \A j \in DOMAIN child :
                       /\ child[j].bit_length = r.defs[j].bit_length
                       /\ child[j].bit_offset + child[j].bit_length <= at + r.bit_length
                       /\ r.defs[j].rel_bitpos # None =>
                              child[j].bit_offset = at + r.defs[j].rel_bitpos

(***************************************************************************)
(* C23.  After any sequence of set operations on the instances of a        *)
(* register tree, on leaves or on composites, the backend bits of every    *)
(* ReadOnly leaf are unchanged: no _set changes them.  (SpecMap; violated  *)
(* by a _set on the composite that holds a RegRO leaf.)                    *)
(***************************************************************************)
C23_ReadOnlyBitsUnchanged ==
    [][ Did("set") =>
            \A j \in DOMAIN inst.leaves[1] :
                inst.leaves[1][j].cls = REGRO =>
                    Bits(value', inst.leaves[1][j].bit_offset,
                                 inst.leaves[1][j].bit_length)
                      = Bits(value, inst.leaves[1][j].bit_offset,
                                    inst.leaves[1][j].bit_length) ]_vars

(***************************************************************************)
(* C24.  Whenever an end_update on a CachingBackend fails (incomplete      *)
(* write, mismatched span or mode, or unsupported nesting depth), that     *)
(* call has issued no set_bits to the inner backend, and the device is as  *)
(* it was.  (SpecNest; violated by the end_update of a scope begun inside  *)
(* another: it commits, then fails on the nesting depth.)                  *)
(***************************************************************************)
C24_FailedEndCommitsNothing ==
    [][ (Did("end") /\ last'.err # OK) =>
            Sets(ilog') = 0 /\ Sets(log') = 0 /\ value' = value ]_vars

(***************************************************************************)
(* C25.  GranularBackend.set_bits(start, length, value) changes no bit of  *)
(* the inner storage outside [start, start+length), for any non-negative   *)
(* value, one wider than length bits included.  (SpecGran; violated: the   *)
(* value is shifted into the region unmasked.)                             *)
(***************************************************************************)
\* the bits of the device a call on gb can reach
DeviceBitsOfGran == 0 .. (StackBits + MaxGran)

C25_SetStaysInSpan ==
    [][ Did("set") =>
            \A b \in DeviceBitsOfGran :
                (b < last'.start \/ b >= last'.start + last'.length) =>
                    Bit(value', b) = Bit(value, b) ]_vars

(***************************************************************************)
(* C26.  Once a composite definition is constructed, constructing further  *)
(* definitions, including ones built from the same children list, never    *)
(* changes its children sequence (its bit_length is assigned once), so a   *)
(* definition whose children summed to its bit_length keeps that sum.      *)
(* (SpecShare; violated: the padding of a later construction goes into     *)
(* the list the earlier definition holds.)                                 *)
(***************************************************************************)
C26_DefinitionsImmutable ==
    \A k \in DOMAIN shared.made :
        /\ shared.defs = shared.made[k].defs
        /\ SumLengths(shared.made[k].defs) = shared.made[k].bit_length
               => SumLengths(shared.defs) = shared.made[k].bit_length

(***************************************************************************)
(* C27.  After any end_update called on a CachingBackend with exactly one  *)
(* Open scope, whether it succeeds or fails with IncompleteWriteError or a *)
(* mismatch assertion, the backend is Idle: the scope is gone, a following *)
(* begin_update succeeds and opens a scope, and a following get_bits or    *)
(* set_bits goes straight to the inner backend, as one call with the same  *)
(* arguments.                                                              *)
(***************************************************************************)
AfterEnd == last.op = "end"

C27_EndLeavesIdle ==
    [][ /\ (Open /\ Did("end")) =>
              /\ Idle'
              /\ last'.err \in {OK, IncompleteWriteError, MismatchError}
        /\ AfterEnd => Idle
        /\ (AfterEnd /\ Did("begin")) => (last'.err = OK /\ Open')
        /\ (AfterEnd /\ Did("get")) =>
              /\ last'.err = OK
              /\ ilog' = <<Entry(GET, last'.start, last'.length, last'.ret)>>
              /\ last'.ret = Bits(value, last'.start, last'.length)
        /\ (AfterEnd /\ Did("set")) =>
              /\ last'.err = OK
              /\ ilog' = <<Entry(SET, last'.start, last'.length, last'.arg)>>
              /\ Bits(value', last'.start, last'.length) = last'.arg ]_vars

\* an end_update has failed on a write scope that had not set all its bits
C27_Witness ==
    /\ AfterEnd /\ last.err = IncompleteWriteError
    /\ Idle

====
